---- MODULE Spec2Model ----
(***************************************************************************)
(* Per-page corrected memory error accounting and page offlining of        *)
(* mcelog (page.c): the page table (clusters of mempage slots, the address *)
(* tree, the cluster LRU list), the replacement counter, the offlining     *)
(* policy and the kernel sysfs writes, driven by page_setup and            *)
(* account_page_error.                                                     *)
(***************************************************************************)
EXTENDS Integers, Sequences, FiniteSets, TLC

----------------------------------------------------------------------------
(* Bounds of the model *)

\* slots per cluster; page.c derives it from PAGE_SIZE and sizeof(struct mempage)
N == 2
\* largest number of clusters a configured max_corr_err_counters asks for
MaxClusters == 2
\* event pages are the page frames 0..MaxPage and the last page frame of the address space
MaxPage == 1
\* number of unfiltered events one run processes
MaxEvents == 4
\* page_trigger_conf.capacity and mp_replacement_trigger_conf.capacity
Capacity == 2
\* the kernel may reject any of the first MaxFail sysfs writes of one event
MaxFail == 2

----------------------------------------------------------------------------
(* Program constants *)

PAGE_SHIFT == 12
PAGE_SIZE == 2 ^ PAGE_SHIFT

PAGE_ONLINE == 0
PAGE_OFFLINE == 1
PAGE_OFFLINE_FAILED == 2

OFFLINE_OFF == 0
OFFLINE_ACCOUNT == 1
OFFLINE_SOFT == 2
OFFLINE_HARD == 3
OFFLINE_SOFT_THEN_HARD == 4

num_consecutive_pages == 5

\* cputype values: the family with the duplicate-APEI quirk, and any other family
CPU_SANDY_BRIDGE_EP == "CPU_SANDY_BRIDGE_EP"
CPU_GENERIC == "CPU_GENERIC"

\* a null pointer
NULL == -1
\* a null struct mempage pointer (slots are pairs <<cluster, index>>)
NULL_MP == <<NULL, NULL>>
\* the list node of the LIST_HEAD mempage_cluster_lru_list; clusters are nodes 1, 2, ...
HEAD == 0

----------------------------------------------------------------------------
(* u64 addresses.  An address is [hi, lo, off]: the page frame number is    *)
(* hi * LimbMod + lo (52 bits in two limbs), off is the 12-bit offset in    *)
(* the page; its value is (hi * LimbMod + lo) * PAGE_SIZE + off, < 2^64.    *)

LimbMod == 2 ^ ((64 - PAGE_SHIFT) \div 2)

Addr(hi, lo, off) == [hi |-> hi, lo |-> lo, off |-> off]

\* a bug: the address is not rounded down
PageAlign_unmasked(a) == a

\* addr &= ~((u64)PAGE_SIZE - 1)
PageAlign(a) == [a EXCEPT !.off = 0]

\* addr + i * PAGE_SIZE in u64 arithmetic (wraps modulo 2^64)
AddPages(a, i) ==
    LET s == a.lo + i
    IN  [off |-> a.off, lo |-> s % LimbMod, hi |-> (a.hi + (s \div LimbMod)) % LimbMod]

\* addr - i * PAGE_SIZE in u64 arithmetic (wraps modulo 2^64)
SubPages(a, i) ==
    LET s == a.lo - i
    IN  IF s >= 0 THEN [a EXCEPT !.lo = s]
        ELSE [off |-> a.off, lo |-> s + LimbMod, hi |-> (a.hi + LimbMod - 1) % LimbMod]

----------------------------------------------------------------------------
(* State *)

VARIABLES
    pc,                     \* "setup" before page_setup, "run" after it, "exit" after a fatal
                            \* exit (Enomem, exit(1)), "crashed" after undefined behaviour
    cputype,                \* CPU family of the machine (global of mcelog.h)
    max_corr_err_counters,  \* configured capacity of the page table (global of mcelog.h)
    offline,                \* the active policy, enum otype
    corr_err_counters,      \* number of counters handed out by mempage_alloc
    mp_cluster,             \* current cluster (index into clusters) or NULL
    clusters,               \* the mmap'ed struct mempage_cluster, in allocation order
    lru,                    \* list_head links: lru[HEAD] is mempage_cluster_lru_list,
                            \* lru[c] is clusters[c].lru
    mempage_root,           \* the slots <<cluster, index>> linked in the address tree
    mp_repalcement,         \* struct mempage_replacement: [bucket, count]
    env,                    \* what page_setup finds in the configuration and in sysfs
    nevents,                \* observer: number of unfiltered events processed
    evictions,              \* observer: unfiltered events that found their page missing
                            \* while the tree held max_corr_err_counters records
    last,                   \* observer: the last account_page_error call: the fields of
                            \* its event (address, valid-address and uncorrected
                            \* bits, bank 1 with effective CPU 0), the path it took
                            \* (filtered, hit, insert, replace, or the undefined
                            \* operation that ended the process), its record, whether the
                            \* page bucket crossed and whether the record was online then
    hits,                   \* observer: for every page in the table, the number of
                            \* unfiltered events for it since it entered the table
    recency,                \* observer: the clusters, most recently touched first
    trace                   \* observer: side effects of the last account_page_error call, in order

vars == <<pc, cputype, max_corr_err_counters, offline, corr_err_counters, mp_cluster,
          clusters, lru, mempage_root, mp_repalcement, env, nevents, evictions,
          last, hits, recency, trace>>

\* the variables that hold the program's own state
progvars == <<pc, cputype, max_corr_err_counters, offline, corr_err_counters, mp_cluster,
              clusters, lru, mempage_root, mp_repalcement>>

\* a struct mempage as mmap hands it out (anonymous memory is zero filled)
ZeroPage == [addr |-> Addr(0, 0, 0), offlined |-> PAGE_ONLINE, triggered |-> FALSE,
             count |-> 0, bucket |-> 0]

\* a struct mempage_cluster as mmap hands it out
ZeroCluster == [mp |-> [i \in 0 .. N - 1 |-> ZeroPage], mp_used |-> 0]

\* struct mempage of slot <<c, i>> in the record of locals and globals S
Rec(S, mp) == S.clusters[mp[1]].mp[mp[2]]

\* to_cluster(mp): the cluster whose page holds the slot
to_cluster(mp) == mp[1]

\* one observed side effect
Effect(op, val, addr, ok) == [op |-> op, val |-> val, addr |-> addr, ok |-> ok]

----------------------------------------------------------------------------
(* Leaky bucket (leaky-bucket.c): the count decays with the time since the  *)
(* last update, then the increment is added; reaching the capacity is a     *)
(* crossing and empties the count.  aged: the event's timestamp is far      *)
(* enough from the bucket's last update for the count to have decayed away. *)

bucket_init == 0

bucket_account(b, aged) ==
    LET c == (IF aged THEN 0 ELSE b) + 1
    IN  IF c >= Capacity THEN [bucket |-> 0, crossed |-> TRUE]
        ELSE [bucket |-> c, crossed |-> FALSE]

----------------------------------------------------------------------------
(* Intrusive circular list (list.h) *)

\* __list_add(new, head, head->next)
list_add(L, new, head) ==
    LET next == L[head].next
        L1 == [L EXCEPT ![next].prev = new]
        L2 == [L1 EXCEPT ![new].next = next]
        L3 == [L2 EXCEPT ![new].prev = head]
    IN  [L3 EXCEPT ![head].next = new]

\* __list_del(entry->prev, entry->next); the poisoned links of entry are
\* overwritten by the list_add that always follows
list_del(L, entry) ==
    LET prev == L[entry].prev
        next == L[entry].next
        L1 == [L EXCEPT ![next].prev = prev]
    IN  [L1 EXCEPT ![prev].next = next]

list_is_first(L, entry, head) == L[entry].prev = head

\* list_last_entry(head, ...): the container of head->prev
list_last_entry(L, head) == L[head].prev

----------------------------------------------------------------------------
(* Page table.  S is the record of the globals and of the locals of the     *)
(* running account_page_error call: S.mp is its local mp.                   *)

mempage_alloc(S, mmap_ok) ==
    LET need == S.mp_cluster = NULL \/ S.clusters[S.mp_cluster].mp_used = N
    IN  IF need /\ ~mmap_ok
        THEN [S EXCEPT !.pc = "exit"]
        ELSE LET k  == Len(S.clusters) + 1
                 S1 == IF need
                       THEN [S EXCEPT !.clusters = Append(@, ZeroCluster),
                                      !.lru = [n \in 0 .. k |->
                                                 IF n < k THEN S.lru[n]
                                                 ELSE [next |-> NULL, prev |-> NULL]],
                                      !.mp_cluster = k]
                       ELSE S
                 c  == S1.mp_cluster
                 i  == S1.clusters[c].mp_used
             IN  [S1 EXCEPT !.clusters[c].mp_used = i + 1, !.mp = <<c, i>>]

\* a bug: the reused record keeps its offline state
mempage_replace_keeps_state(S) ==
    IF S.mp_cluster = NULL
    THEN [S EXCEPT !.pc = "crashed", !.kind = "null_cluster"]
    ELSE LET full == S.clusters[S.mp_cluster].mp_used = N
             lst  == list_last_entry(S.lru, HEAD)
         IN  IF full /\ lst \notin 1 .. Len(S.clusters)
             THEN [S EXCEPT !.pc = "crashed", !.kind = "no_last_entry"]
             ELSE LET S1 == IF full
                            THEN [S EXCEPT !.mp_cluster = lst,
                                           !.clusters[lst].mp_used = 0]
                            ELSE S
                      c  == S1.mp_cluster
                      i  == S1.clusters[c].mp_used
                  IN  [S1 EXCEPT !.clusters[c].mp_used = i + 1,
                                 !.clusters[c].mp[i].triggered = FALSE,
                                 !.clusters[c].mp[i].count = 0,
                                 !.mp = <<c, i>>]

\* a bug: the reused record keeps its triggered flag
mempage_replace_keeps_triggered(S) ==
    IF S.mp_cluster = NULL
    THEN [S EXCEPT !.pc = "crashed", !.kind = "null_cluster"]
    ELSE LET full == S.clusters[S.mp_cluster].mp_used = N
             lst  == list_last_entry(S.lru, HEAD)
         IN  IF full /\ lst \notin 1 .. Len(S.clusters)
             THEN [S EXCEPT !.pc = "crashed", !.kind = "no_last_entry"]
             ELSE LET S1 == IF full
                            THEN [S EXCEPT !.mp_cluster = lst,
                                           !.clusters[lst].mp_used = 0]
                            ELSE S
                      c  == S1.mp_cluster
                      i  == S1.clusters[c].mp_used
                  IN  [S1 EXCEPT !.clusters[c].mp_used = i + 1,
                                 !.clusters[c].mp[i].offlined = PAGE_ONLINE,
                                 !.clusters[c].mp[i].count = 0,
                                 !.mp = <<c, i>>]

mempage_replace(S) ==
    IF S.mp_cluster = NULL
    THEN [S EXCEPT !.pc = "crashed", !.kind = "null_cluster"]
    ELSE LET full == S.clusters[S.mp_cluster].mp_used = N
             lst  == list_last_entry(S.lru, HEAD)
         IN  IF full /\ lst \notin 1 .. Len(S.clusters)
             THEN [S EXCEPT !.pc = "crashed", !.kind = "no_last_entry"]
             ELSE LET S1 == IF full
                            THEN [S EXCEPT !.mp_cluster = lst,
                                           !.clusters[lst].mp_used = 0]
                            ELSE S
                      c  == S1.mp_cluster
                      i  == S1.clusters[c].mp_used
                  IN  [S1 EXCEPT !.clusters[c].mp_used = i + 1,
                                 !.clusters[c].mp[i].offlined = PAGE_ONLINE,
                                 !.clusters[c].mp[i].triggered = FALSE,
                                 !.clusters[c].mp[i].count = 0,
                                 !.mp = <<c, i>>]

mempage_lookup(S, addr) ==
    IF \E mp \in S.root : Rec(S, mp).addr = addr
    THEN CHOOSE mp \in S.root : Rec(S, mp).addr = addr
    ELSE NULL_MP

\* links the node unless a record with this address is in the tree already
mempage_insert_lookup(S, addr, mp) ==
    IF \E o \in S.root : Rec(S, o).addr = addr
    THEN S
    ELSE [S EXCEPT !.root = @ \cup {mp}]

mempage_insert(S, addr, mp) ==
    mempage_insert_lookup([S EXCEPT !.clusters[mp[1]].mp[mp[2]].addr = addr], addr, mp)

\* rb_erase of a node that is not linked in the tree is undefined
mempage_rb_tree_update(S, addr, mp) ==
    IF mp \notin S.root
    THEN [S EXCEPT !.pc = "crashed", !.kind = "erase_unlinked"]
    ELSE mempage_insert([S EXCEPT !.root = @ \ {mp}], addr, mp)

mempage_cluster_lru_list_insert(S, c) ==
    [S EXCEPT !.lru = list_add(@, c, HEAD)]

mempage_cluster_lru_list_update(S, c) ==
    IF list_is_first(S.lru, c, HEAD)
    THEN S
    ELSE [S EXCEPT !.lru = list_add(list_del(@, c), c, HEAD)]

----------------------------------------------------------------------------
(* Offliner.  S.fails is the set of the sysfs writes of this call (counted  *)
(* from 1) that the kernel rejects; S.ret is the returned int.              *)

\* kernel_offline[type]: the sysfs node, named by the policy that owns it
\* (OFFLINE_SOFT: soft_offline_page, OFFLINE_HARD: hard_offline_page)
kernel_offline(type) ==
    IF type = OFFLINE_HARD THEN OFFLINE_HARD
    ELSE IF type \in {OFFLINE_SOFT, OFFLINE_SOFT_THEN_HARD} THEN OFFLINE_SOFT
    ELSE NULL

\* sysfs_write(kernel_offline[type], "%#llx", addr): the write carries the value of addr

do_memory_offline(S, addr, type) ==
    LET k  == S.nwrites + 1
        ok == k \notin S.fails
    IN  [S EXCEPT !.nwrites = k,
                  !.trace = Append(@, Effect("write", kernel_offline(type), addr, ok)),
                  !.ret = IF ok THEN 0 ELSE -1]

RECURSIVE consecutive_loop(_, _, _, _, _)
\* the iterations i .. num_pages of the loop
consecutive_loop(S, addr, num_pages, type, i) ==
    IF i > num_pages THEN [S EXCEPT !.ret = 0]
    ELSE IF i = 0
    THEN LET S1 == do_memory_offline(S, addr, type)
         IN  IF S1.ret < 0 THEN S1
             ELSE consecutive_loop(S1, addr, num_pages, type, i + 1)
    ELSE LET S1 == do_memory_offline(S, AddPages(addr, i), type)
         IN  IF S1.ret < 0 THEN S1
             ELSE LET S2 == do_memory_offline(S1, SubPages(addr, i), type)
                  IN  IF S2.ret < 0 THEN S2
                      ELSE consecutive_loop(S2, addr, num_pages, type, i + 1)

do_consecutive_memory_offline(S, addr, num_pages, type) ==
    consecutive_loop(S, addr, num_pages, type, 0)

\* a bug: the fallback writes to the soft node again
memory_offline_soft_twice(S, addr) ==
    IF S.offline = OFFLINE_SOFT_THEN_HARD
    THEN LET S1 == do_memory_offline(S, addr, OFFLINE_SOFT)
         IN  IF S1.ret < 0
             THEN do_memory_offline(S1, addr, OFFLINE_SOFT)
             ELSE [S1 EXCEPT !.ret = 0]
    ELSE do_consecutive_memory_offline(S, addr, num_consecutive_pages, S.offline)

memory_offline(S, addr) ==
    IF S.offline = OFFLINE_SOFT_THEN_HARD
    THEN LET S1 == do_memory_offline(S, addr, OFFLINE_SOFT)
         IN  IF S1.ret < 0
             THEN do_memory_offline(S1, addr, OFFLINE_HARD)
             ELSE [S1 EXCEPT !.ret = 0]
    ELSE do_consecutive_memory_offline(S, addr, num_consecutive_pages, S.offline)

\* a bug: the policy test lets account through
offline_action_account_acts(S, mp, addr) ==
    IF S.offline < OFFLINE_ACCOUNT
    THEN S
    ELSE LET S1 == memory_offline(S, addr)
             st == IF S1.ret < 0 THEN PAGE_OFFLINE_FAILED ELSE PAGE_OFFLINE
         IN  [S1 EXCEPT !.clusters[mp[1]].mp[mp[2]].offlined = st,
                        !.trace = Append(@, Effect("offlined", st, addr, S1.ret = 0))]

offline_action(S, mp, addr) ==
    IF S.offline <= OFFLINE_ACCOUNT
    THEN S
    ELSE LET S1 == memory_offline(S, addr)
             st == IF S1.ret < 0 THEN PAGE_OFFLINE_FAILED ELSE PAGE_OFFLINE
         IN  [S1 EXCEPT !.clusters[mp[1]].mp[mp[2]].offlined = st,
                        !.trace = Append(@, Effect("offlined", st, addr, S1.ret = 0))]

----------------------------------------------------------------------------
(* account_page_error *)

\* unsigned cpu = m->extcpu ? m->extcpu : m->cpu
EffectiveCpu(m) == IF m.extcpu # 0 THEN m.extcpu ELSE m.cpu

\* a bug: uncorrected errors are accounted
FilterReason_accepts_uc(m) ==
    IF offline = OFFLINE_OFF THEN "off"
    ELSE IF ~m.addrv THEN "noaddr"
    ELSE IF cputype = CPU_SANDY_BRIDGE_EP /\ m.bank = 1 /\ EffectiveCpu(m) = 0 THEN "quirk"
    ELSE "none"

\* the early returns: "none" when the event is accounted
FilterReason(m) ==
    IF offline = OFFLINE_OFF THEN "off"
    ELSE IF ~m.addrv THEN "noaddr"
    ELSE IF m.uc THEN "uc"
    ELSE IF cputype = CPU_SANDY_BRIDGE_EP /\ m.bank = 1 /\ EffectiveCpu(m) = 0 THEN "quirk"
    ELSE "none"

\* a bug: only replacements that cross the threshold are counted
count_replacement_on_crossing(r, b) ==
    [bucket |-> b.bucket, count |-> IF b.crossed THEN r.count + 1 ELSE r.count]

\* ++mp_repalcement.count, and the bucket after __bucket_account returned b
count_replacement(r, b) == [bucket |-> b.bucket, count |-> r.count + 1]

\* a bug: one counter too many is handed out
has_room_inclusive(S) == S.corr <= max_corr_err_counters

\* corr_err_counters < max_corr_err_counters
has_room(S) == S.corr < max_corr_err_counters

\* lookup, then insert, replace or touch
account_table(S, addr, mmap_ok, aged_r) ==
    LET mp0 == mempage_lookup(S, addr)
    IN  IF mp0 = NULL_MP /\ has_room(S)
        THEN LET S1 == mempage_alloc(S, mmap_ok)
             IN  IF S1.pc # "run" THEN S1
                 ELSE LET S2 == [S1 EXCEPT !.clusters[S1.mp[1]].mp[S1.mp[2]].bucket = bucket_init]
                          S3 == mempage_insert(S2, addr, S2.mp)
                          S4 == mempage_cluster_lru_list_insert(S3, to_cluster(S3.mp))
                      IN  [S4 EXCEPT !.corr = @ + 1, !.kind = "insert"]
        ELSE IF mp0 = NULL_MP
        THEN LET S1 == mempage_replace(S)
             IN  IF S1.pc # "run" THEN S1
                 ELSE LET S2 == [S1 EXCEPT !.clusters[S1.mp[1]].mp[S1.mp[2]].bucket = bucket_init]
                          S3 == mempage_rb_tree_update(S2, addr, S2.mp)
                      IN  IF S3.pc # "run" THEN S3
                          ELSE LET S4 == mempage_cluster_lru_list_update(S3, to_cluster(S3.mp))
                                   b  == bucket_account(S4.repl.bucket, aged_r)
                                   S5 == [S4 EXCEPT !.repl = count_replacement(S4.repl, b),
                                                    !.kind = "replace"]
                               IN  IF b.crossed
                                   THEN [S5 EXCEPT !.trace = Append(@,
                                           Effect("replacement_trigger", S5.repl.count, addr, TRUE))]
                                   ELSE S5
        ELSE [mempage_cluster_lru_list_update(S, to_cluster(mp0))
                 EXCEPT !.mp = mp0, !.kind = "hit"]

\* a bug: events on a page that is no longer online are not counted
account_bucket_skips_offlined(S, aged) ==
    LET mp == S.mp
        b  == bucket_account(Rec(S, mp).bucket, aged)
    IN  [S EXCEPT !.clusters[mp[1]].mp[mp[2]].count =
                      IF Rec(S, mp).offlined = PAGE_ONLINE THEN @ + 1 ELSE @,
                  !.clusters[mp[1]].mp[mp[2]].bucket = b.bucket,
                  !.crossed = b.crossed,
                  !.online = Rec(S, mp).offlined = PAGE_ONLINE]

\* ++mp->ce.count and the page bucket
account_bucket(S, aged) ==
    LET mp == S.mp
        b  == bucket_account(Rec(S, mp).bucket, aged)
    IN  [S EXCEPT !.clusters[mp[1]].mp[mp[2]].count = @ + 1,
                  !.clusters[mp[1]].mp[mp[2]].bucket = b.bucket,
                  !.crossed = b.crossed,
                  !.online = Rec(S, mp).offlined = PAGE_ONLINE]

\* a bug: the post-soft trigger runs only after a successful offlining
account_crossing_post_on_success(S, addr, fails) ==
    LET mp == S.mp
        S1 == [S EXCEPT !.fails = fails,
                        !.trace = Append(Append(@, Effect("page_trigger", 0, addr, TRUE)),
                                         Effect("triggered", 1, addr, TRUE)),
                        !.clusters[mp[1]].mp[mp[2]].triggered = TRUE]
    IN  IF S1.offline = OFFLINE_SOFT \/ S1.offline = OFFLINE_SOFT_THEN_HARD
        THEN LET S2 == [S1 EXCEPT !.trace = Append(@, Effect("pre_soft", 1, addr, TRUE))]
                 S3 == offline_action(S2, mp, addr)
             IN  IF Rec(S3, mp).offlined = PAGE_OFFLINE
                 THEN [S3 EXCEPT !.trace = Append(@, Effect("post_soft", 1, addr, TRUE))]
                 ELSE S3
        ELSE offline_action(S1, mp, addr)

\* the body of the crossing branch for an online page; the value of a trigger effect
\* is the sync argument of memdb_trigger (0: false, 1: true)
account_crossing(S, addr, fails) ==
    LET mp == S.mp
        S1 == [S EXCEPT !.fails = fails,
                        !.trace = Append(Append(@, Effect("page_trigger", 0, addr, TRUE)),
                                         Effect("triggered", 1, addr, TRUE)),
                        !.clusters[mp[1]].mp[mp[2]].triggered = TRUE]
    IN  IF S1.offline = OFFLINE_SOFT \/ S1.offline = OFFLINE_SOFT_THEN_HARD
        THEN LET S2 == [S1 EXCEPT !.trace = Append(@, Effect("pre_soft", 1, addr, TRUE))]
                 S3 == offline_action(S2, mp, addr)
             IN  [S3 EXCEPT !.trace = Append(@, Effect("post_soft", 1, addr, TRUE))]
        ELSE offline_action(S1, mp, addr)

----------------------------------------------------------------------------
(* Inputs *)

\* the page frames events report: 0 .. MaxPage and the last one of the address space
Pages == {Addr(0, i, 0) : i \in 0 .. MaxPage} \cup {Addr(LimbMod - 1, LimbMod - 1, 0)}

\* offsets in the page of the addresses reported for the page frame with low limb lo:
\* page frame 0 is reported at its first byte, page frame 1 at two addresses inside
\* it, every other one at its last byte
Offsets(lo) == IF lo = 0 THEN {0} ELSE IF lo = 1 THEN {8, 1656} ELSE {PAGE_SIZE - 1}

\* corrected errors with a valid address, from a bank and CPU no quirk filters
PlainEvents ==
    {[addr |-> a, addrv |-> TRUE, uc |-> FALSE, bank |-> 5, cpu |-> 1, extcpu |-> 0] :
        a \in UNION {{[p EXCEPT !.off = o] : o \in Offsets(p.lo)} : p \in Pages}}

\* events on one page that differ from a plain one in the fields the filters read:
\* no valid address, uncorrected, the bank 1 / CPU 0 record of the APEI code, and the
\* records that share only one or two of its fields
FlagEvents ==
    {[addr |-> Addr(0, 0, 0), addrv |-> f[1], uc |-> f[2], bank |-> f[3],
      cpu |-> f[4], extcpu |-> f[5]] :
        f \in {<<FALSE, FALSE, 5, 1, 0>>, <<TRUE, TRUE, 5, 1, 0>>, <<TRUE, FALSE, 1, 0, 0>>,
               <<TRUE, FALSE, 1, 0, 1>>, <<TRUE, FALSE, 1, 1, 0>>, <<TRUE, FALSE, 5, 0, 0>>}}

Events == PlainEvents \cup FlagEvents

\* values of max_corr_err_counters the configuration may hold before page_setup
MaxCounterChoices ==
    {0} \cup {(k - 1) * N + 1 : k \in 1 .. MaxClusters} \cup {k * N : k \in 1 .. MaxClusters}

\* results of config_choice("page", "memory-ce-action", ...): -1 when the key is not set
ActionChoices == -1 .. OFFLINE_SOFT_THEN_HARD

\* what page_setup reads from the configuration and from sysfs:
\*   action    config_choice("page", "memory-ce-action", offline_choice)
\*   avail     sysfs_available(kernel_offline[offline], W_OK), read only for a policy above account
\*   trig_ok   both trigger_check calls succeed
Environments ==
    {e \in [action : ActionChoices, avail : BOOLEAN, trig_ok : BOOLEAN] :
        e.action <= OFFLINE_ACCOUNT => e.avail}

\* a bug: the configured value is not rounded
roundup_keeps(x, y) == x

\* roundup(x, y)
roundup(x, y) == ((x + y - 1) \div y) * y

----------------------------------------------------------------------------
(* Specification *)

Init ==
    /\ pc = "setup"
    /\ cputype \in {CPU_SANDY_BRIDGE_EP, CPU_GENERIC}
    /\ max_corr_err_counters \in MaxCounterChoices
    /\ env \in Environments
    /\ offline = OFFLINE_OFF
    /\ corr_err_counters = 0
    /\ mp_cluster = NULL
    /\ clusters = <<>>
    /\ lru = [n \in {HEAD} |-> [next |-> HEAD, prev |-> HEAD]]
    /\ mempage_root = {}
    /\ mp_repalcement = [bucket |-> 0, count |-> 0]
    /\ nevents = 0
    /\ evictions = 0
    /\ last = [kind |-> "none", addr |-> Addr(0, 0, 0), addrv |-> TRUE, uc |-> FALSE,
               apei |-> FALSE, crossed |-> FALSE, online |-> FALSE, mp |-> NULL_MP]
    /\ hits = [a \in {} |-> 0]
    /\ recency = <<>>
    /\ trace = <<>>

\* a bug: the policy is kept though its sysfs node cannot be written
offline_probed_keeps(off, avail) == off

\* the policy after the probe of its sysfs node: account when the node of a policy
\* above account is not writable
offline_probed(off, avail) ==
    IF off > OFFLINE_ACCOUNT /\ ~avail THEN OFFLINE_ACCOUNT ELSE off

page_setup ==
    /\ pc = "setup"
    /\ LET off1 == IF env.action >= 0 THEN env.action ELSE offline
       IN  offline' = offline_probed(off1, env.avail)
    /\ IF env.trig_ok
       THEN /\ max_corr_err_counters' = roundup(max_corr_err_counters, N)
            /\ mp_repalcement' = [mp_repalcement EXCEPT !.bucket = bucket_init]
            /\ pc' = "run"
       ELSE /\ pc' = "exit"
            /\ UNCHANGED <<max_corr_err_counters, mp_repalcement>>
    /\ UNCHANGED <<cputype, env, corr_err_counters, mp_cluster, clusters, lru, mempage_root,
                   nevents, evictions, last, hits, recency, trace>>

\* the globals, and the locals of a call that starts
Locals ==
    [pc |-> pc, offline |-> offline, corr |-> corr_err_counters, mp_cluster |-> mp_cluster,
     clusters |-> clusters, lru |-> lru, root |-> mempage_root, repl |-> mp_repalcement,
     trace |-> <<>>, mp |-> NULL_MP, kind |-> "none", crossed |-> FALSE, online |-> FALSE,
     fails |-> {}, nwrites |-> 0, ret |-> 0]

\* the call returns (or the process ends) in S
Return(S, m) ==
    /\ pc' = S.pc
    /\ corr_err_counters' = S.corr
    /\ mp_cluster' = S.mp_cluster
    /\ clusters' = S.clusters
    /\ lru' = S.lru
    /\ mempage_root' = S.root
    /\ mp_repalcement' = S.repl
    /\ trace' = S.trace
    /\ last' = [kind |-> S.kind, addr |-> m.addr, addrv |-> m.addrv, uc |-> m.uc,
                apei |-> (m.bank = 1 /\ EffectiveCpu(m) = 0),
                crossed |-> S.crossed, online |-> S.online, mp |-> S.mp]
    /\ nevents' = nevents + 1
    /\ evictions' = evictions +
          (IF mempage_lookup(Locals, PageAlign(m.addr)) = NULL_MP
              /\ Cardinality(mempage_root) = max_corr_err_counters THEN 1 ELSE 0)
    /\ hits' = LET addr == PageAlign(m.addr)
                   held == mempage_lookup(Locals, addr) # NULL_MP
               IN  [a \in {Rec(S, mp).addr : mp \in S.root} |->
                      IF a # addr THEN hits[a]
                      ELSE IF held THEN hits[a] + 1 ELSE 1]
    /\ recency' = IF S.mp = NULL_MP THEN recency
                  ELSE <<to_cluster(S.mp)>> \o SelectSeq(recency, LAMBDA c : c # to_cluster(S.mp))
    /\ UNCHANGED <<cputype, env, max_corr_err_counters, offline>>

\* one call of account_page_error(m, channel, dimm) with an event of evs; at most
\* bound calls get past the filters
account(evs, bound) ==
    /\ pc = "run"
    /\ \E m \in evs :
         IF FilterReason(m) # "none"
         THEN /\ last' = [kind |-> "filtered", addr |-> m.addr,
                          addrv |-> m.addrv, uc |-> m.uc,
                          apei |-> (m.bank = 1 /\ EffectiveCpu(m) = 0),
                          crossed |-> FALSE, online |-> FALSE, mp |-> NULL_MP]
              /\ trace' = <<>>
              /\ UNCHANGED <<progvars, env, nevents, evictions, hits, recency>>
         ELSE /\ nevents < bound
              /\ LET addr == PageAlign(m.addr)
                     miss == mempage_lookup(Locals, addr) = NULL_MP
                     ins  == miss /\ has_room(Locals)
                     mmap == ins /\ (mp_cluster = NULL \/ clusters[mp_cluster].mp_used = N)
                 IN  \E mmap_ok \in (IF mmap THEN BOOLEAN ELSE {TRUE}),
                        aged_r \in (IF miss /\ ~ins THEN BOOLEAN ELSE {FALSE}) :
                       LET S1 == account_table(Locals, addr, mmap_ok, aged_r)
                       IN  IF S1.pc # "run" THEN Return(S1, m)
                           ELSE \E aged \in BOOLEAN :
                                  LET S2 == account_bucket(S1, aged)
                                  IN  IF ~S2.crossed \/ ~S2.online THEN Return(S2, m)
                                      ELSE \E fails \in SUBSET (1 .. MaxFail) :
                                             Return(account_crossing(S2, addr, fails), m)

account_page_error == account(Events, MaxEvents)

Next == page_setup \/ account_page_error

Spec == Init /\ [][Next]_vars

----------------------------------------------------------------------------
(* A table of MaxClusters full clusters under policy account, driven by     *)
(* plain events on one page more than the table holds, long enough for two  *)
(* forced evictions.                                                        *)

\* the page frames 0 .. MaxClusters * N
PagesLRU == {Addr(0, i, 0) : i \in 0 .. MaxClusters * N}

\* page frames are numbered in the order the events introduce them: an event reports a
\* page frame up to the number of misses served so far
EventsLRU ==
    {[addr |-> a, addrv |-> TRUE, uc |-> FALSE, bank |-> 5, cpu |-> 1, extcpu |-> 0] :
        a \in {p \in PagesLRU : p.lo <= corr_err_counters + mp_repalcement.count}}

MaxEventsLRU == MaxClusters * N + 2

\* configured values of max_corr_err_counters that page_setup rounds to MaxClusters * N
MaxCounterChoicesLRU == {MaxClusters * N - 1, MaxClusters * N}

InitLRU ==
    /\ Init
    /\ cputype = CPU_GENERIC
    /\ max_corr_err_counters \in MaxCounterChoicesLRU
    /\ env = [action |-> OFFLINE_ACCOUNT, avail |-> TRUE, trig_ok |-> TRUE]

account_page_error_lru == account(EventsLRU, MaxEventsLRU)

NextLRU == page_setup \/ account_page_error_lru

SpecLRU == InitLRU /\ [][NextLRU]_vars

----------------------------------------------------------------------------
(* Properties *)

\* the slots of the allocated clusters
Slots == {<<c, i>> : c \in 1 .. Len(clusters), i \in 0 .. N - 1}

\* the struct mempage of a slot
Page(mp) == clusters[mp[1]].mp[mp[2]]

\* the sysfs writes among the side effects t
Writes(t) == SelectSeq(t, LAMBDA e : e.op = "write")

\* page_setup has run and has left a capacity of at least one cluster
SetUp == pc # "setup" /\ max_corr_err_counters >= N /\ max_corr_err_counters % N = 0

\* C1: once page_setup has rounded max_counters up to a multiple of N (at least N),
\* the tree never indexes more than max_counters records and never more than
\* max_counters / N clusters are allocated.
C1_TableBounded ==
    SetUp => /\ Cardinality(mempage_root) <= max_corr_err_counters
             /\ Len(clusters) * N <= max_corr_err_counters

\* C1 witness: the table is full, a miss has been served by replacement, and the
\* number of clusters is exactly max_counters / N
C1_Witness ==
    /\ SetUp /\ pc = "run"
    /\ Cardinality(mempage_root) = max_corr_err_counters
    /\ Len(clusters) * N = max_corr_err_counters
    /\ last.kind = "replace"

\* C2: every indexed record has an address with the low 12 bits zero, and no two
\* indexed records have the same address.
C2_AlignedDistinct ==
    /\ \A mp \in mempage_root : Page(mp).addr.off = 0
    /\ \A mp1, mp2 \in mempage_root : Page(mp1).addr = Page(mp2).addr => mp1 = mp2

\* C2 witness: an event with an address inside a page replaced a record while
\* another record stays indexed
C2_Witness ==
    /\ last.kind = "replace"
    /\ last.addr.off # 0
    /\ last.mp \in mempage_root
    /\ Page(last.mp).addr = PageAlign(last.addr)
    /\ Cardinality(mempage_root) >= 2

\* the last call found the page bucket crossing on a record that was online
CrossedOnline ==
    pc = "run" /\ last.kind \in {"hit", "insert", "replace"} /\ last.crossed /\ last.online

\* the writes of the last call that carry the address of the page of its event
OwnWrites == SelectSeq(trace, LAMBDA e : e.op = "write" /\ e.addr = PageAlign(last.addr))

\* C3: a threshold crossing on an online page under policy soft or hard issues
\* exactly one sysfs write, carrying the page-aligned address of that page.
C3_ExactlyOneWrite ==
    (CrossedOnline /\ offline \in {OFFLINE_SOFT, OFFLINE_HARD})
        => /\ Len(Writes(trace)) = 1
           /\ Writes(trace)[1].addr = PageAlign(last.addr)

\* C4: while a record is offline or offline-failed and stays in the table, no call
\* issues a sysfs write that carries its address.
C4_NoWriteForOfflinedPage ==
    [][\A mp \in mempage_root :
         (/\ Page(mp).offlined # PAGE_ONLINE
          /\ mp \in mempage_root'
          /\ clusters'[mp[1]].mp[mp[2]].addr = Page(mp).addr)
            => \A k \in 1 .. Len(trace') :
                 trace'[k].op = "write" => trace'[k].addr # Page(mp).addr]_vars

\* C5: under policy off or account no sysfs write is issued and every record stays
\* online.
C5_AccountNeverWrites ==
    offline \in {OFFLINE_OFF, OFFLINE_ACCOUNT}
        => /\ Writes(trace) = <<>>
           /\ \A mp \in Slots : Page(mp).offlined = PAGE_ONLINE

\* C5 witness: under policy account a record has crossed its threshold a second time
C5_Witness ==
    /\ offline = OFFLINE_ACCOUNT
    /\ CrossedOnline
    /\ Page(last.mp).count >= 2 * Capacity
    /\ Page(last.mp).triggered

\* the fields of an event that make account_page_error return early
FilteredEvent(e) ==
    \/ offline = OFFLINE_OFF
    \/ ~e.addrv
    \/ e.uc
    \/ (cputype = CPU_SANDY_BRIDGE_EP /\ e.apei)

\* C6: a filtered event (policy off, no valid address, uncorrected, or bank 1 with
\* effective CPU 0 on Sandy Bridge EP) changes nothing of the table, the LRU list, the
\* records and the replacement counter and has no side effect; an event of bank 1 and
\* CPU 0 on another family that no other filter stops is accounted.
C6_FilteredIsNoop ==
    [][pc = "run" =>
         /\ FilteredEvent(last') => (UNCHANGED progvars /\ trace' = <<>>)
         /\ (last'.apei /\ last'.addrv /\ ~last'.uc /\ offline # OFFLINE_OFF
               /\ cputype # CPU_SANDY_BRIDGE_EP /\ pc' = "run")
              => /\ last'.mp \in mempage_root'
                 /\ clusters'[last'.mp[1]].mp[last'.mp[2]].addr = PageAlign(last'.addr)
                 /\ nevents' = nevents + 1]_vars

\* C6 witness: the bank 1 / CPU 0 event was dropped on Sandy Bridge EP while the table
\* holds records
C6_Witness ==
    /\ last.kind = "filtered"
    /\ last.apei /\ last.addrv /\ ~last.uc
    /\ cputype = CPU_SANDY_BRIDGE_EP
    /\ offline # OFFLINE_OFF
    /\ Cardinality(mempage_root) >= 2

\* C7: the replacement count is the number of unfiltered events that missed while the
\* table held max_counters records; none happens before the table is full.
C7_CountIsEvictions ==
    pc = "run" => /\ mp_repalcement.count = evictions
                  /\ evictions > 0 => Cardinality(mempage_root) = max_corr_err_counters

\* C7 witness: after one forced eviction a hit has left the count at one
C7_Witness ==
    /\ pc = "run"
    /\ mp_repalcement.count = 1
    /\ last.kind = "hit"
    /\ nevents = max_corr_err_counters + 2

\* C8: while a record stays in the table its offline state only moves from online to
\* offline or offline-failed and then stays; a replaced record starts online.
C8_OfflineStateSinks ==
    [][\A mp \in mempage_root \cap mempage_root' :
         LET old == Page(mp)
             new == clusters'[mp[1]].mp[mp[2]]
         IN  IF new.addr = old.addr
             THEN \/ new.offlined = old.offlined
                  \/ /\ old.offlined = PAGE_ONLINE
                     /\ new.offlined \in {PAGE_OFFLINE, PAGE_OFFLINE_FAILED}
             ELSE last'.kind = "replace" /\ last'.mp = mp /\ last'.online]_vars

\* C8 witness: a record that failed to offline crossed its threshold again and is
\* still offline-failed
C8_Witness ==
    /\ pc = "run"
    /\ last.kind = "hit" /\ last.crossed /\ ~last.online
    /\ Page(last.mp).offlined = PAGE_OFFLINE_FAILED

\* C9: under soft-then-hard a crossing on an online page writes the page address to
\* the soft node first, writes it to the hard node iff the soft write failed, and the
\* record ends offline iff the soft write or else the hard write succeeded.
C9_SoftThenHard ==
    (CrossedOnline /\ offline = OFFLINE_SOFT_THEN_HARD)
        => LET w == Writes(trace)
           IN  /\ Len(w) \in {1, 2}
               /\ w[1].val = OFFLINE_SOFT /\ w[1].addr = PageAlign(last.addr)
               /\ Len(w) = 2 <=> ~w[1].ok
               /\ Len(w) = 2 => (w[2].val = OFFLINE_HARD /\ w[2].addr = PageAlign(last.addr))
               /\ Page(last.mp).offlined =
                     (IF w[Len(w)].ok THEN PAGE_OFFLINE ELSE PAGE_OFFLINE_FAILED)

\* C9 witness: the soft write failed, the hard write succeeded, the record is offline
C9_Witness ==
    /\ CrossedOnline /\ offline = OFFLINE_SOFT_THEN_HARD
    /\ Len(Writes(trace)) = 2
    /\ ~Writes(trace)[1].ok /\ Writes(trace)[2].ok
    /\ Page(last.mp).offlined = PAGE_OFFLINE

\* C10: after a crossing on an online page under a policy above account the record is
\* offline iff the kernel accepted the last write of the record's own page address,
\* and offline-failed iff that write returned an error.
C10_StateIsOwnWriteResult ==
    (CrossedOnline /\ offline > OFFLINE_ACCOUNT)
        => /\ Len(OwnWrites) >= 1
           /\ Page(last.mp).offlined = PAGE_OFFLINE <=> OwnWrites[Len(OwnWrites)].ok
           /\ Page(last.mp).offlined = PAGE_OFFLINE_FAILED <=> ~OwnWrites[Len(OwnWrites)].ok

\* C11: when the sysfs node of the configured policy (soft, hard, or the soft node
\* for soft-then-hard) is not writable at startup, page_setup leaves the policy at
\* account and no later call issues a sysfs write; when it is writable the configured
\* policy is kept.
C11_UnwritableNodeDowngrades ==
    (pc # "setup" /\ env.action > OFFLINE_ACCOUNT)
        => IF env.avail
           THEN offline = env.action
           ELSE offline = OFFLINE_ACCOUNT /\ Writes(trace) = <<>>

\* C11 witness: policy hard was configured, its node was not writable, and a page
\* crossed its threshold
C11_Witness ==
    /\ env.action = OFFLINE_HARD /\ ~env.avail
    /\ CrossedOnline
    /\ Page(last.mp).triggered

\* the side effects of the last call without the replacement trigger, which belongs
\* to the table update that precedes the page bucket
CrossingEffects == SelectSeq(trace, LAMBDA e : e.op # "replacement_trigger")

\* C12: a crossing on an online page under soft or soft-then-hard has its side effects
\* in this order within the one call: the asynchronous page trigger, triggered set,
\* the synchronous pre-soft trigger, the sysfs write(s), the offline state update, the
\* synchronous post-soft trigger, which runs after a failed offlining too; under hard
\* the order is page trigger, triggered set, sysfs write(s), state update, with no
\* pre-soft or post-soft trigger.
C12_SideEffectOrder ==
    (CrossedOnline /\ offline > OFFLINE_ACCOUNT)
        => LET t == CrossingEffects
               n == Len(t)
               soft == offline \in {OFFLINE_SOFT, OFFLINE_SOFT_THEN_HARD}
               w1 == IF soft THEN 4 ELSE 3
               st == IF soft THEN n - 1 ELSE n
           IN  /\ n >= w1 + 1
               /\ t[1].op = "page_trigger" /\ t[1].val = 0
               /\ t[2].op = "triggered" /\ Page(last.mp).triggered
               /\ soft => (t[3].op = "pre_soft" /\ t[3].val = 1)
               /\ st > w1
               /\ \A k \in w1 .. st - 1 : t[k].op = "write"
               /\ t[st].op = "offlined" /\ t[st].val = Page(last.mp).offlined
               /\ soft => (t[n].op = "post_soft" /\ t[n].val = 1)
               /\ ~soft => \A k \in 1 .. n : t[k].op \notin {"pre_soft", "post_soft"}

\* C12 witness: under soft the offlining failed and the post-soft trigger ran last
C12_Witness ==
    /\ CrossedOnline /\ offline = OFFLINE_SOFT
    /\ Page(last.mp).offlined = PAGE_OFFLINE_FAILED
    /\ trace[Len(trace)].op = "post_soft"
    /\ trace[Len(trace) - 2].op = "write" /\ ~trace[Len(trace) - 2].ok

\* C13: once triggered is true for a record in its current residency, no later call
\* dispatches the page trigger for that record again, under every policy that
\* accounts, account included.
C13_NoSecondPageTrigger ==
    [][\A mp \in mempage_root :
         (/\ Page(mp).triggered
          /\ mp \in mempage_root'
          /\ clusters'[mp[1]].mp[mp[2]].addr = Page(mp).addr)
            => \A k \in 1 .. Len(trace') :
                 trace'[k].op = "page_trigger" => trace'[k].addr # Page(mp).addr]_vars

\* C14: with two or more clusters allocated, every forced eviction takes its victim
\* from the cluster that was least recently touched (by a hit, an insert or a
\* replacement of one of its records) when the event arrived, and that cluster is then
\* the first of the LRU list.
C14_VictimFromLRUCluster ==
    [][(pc' = "run" /\ last'.kind = "replace" /\ Len(clusters) >= 2)
         => /\ to_cluster(last'.mp) = recency[Len(recency)]
            /\ lru'[HEAD].next = to_cluster(last'.mp)]_vars

C16_TriggeredOncePerResidency ==
    [][\A mp \in mempage_root' :
         LET new == clusters'[mp[1]].mp[mp[2]]
             acted == last'.mp = mp /\ last'.crossed /\ last'.online
         IN  IF mp \in mempage_root /\ Page(mp).addr = new.addr
             THEN /\ Page(mp).triggered => new.triggered
                  /\ (~Page(mp).triggered /\ new.triggered) => acted
             ELSE new.triggered => acted]_vars

\* C16 witness: a replacement has reused a slot while the table holds a record whose
\* flag was set by an earlier crossing
C16_Witness ==
    /\ pc = "run" /\ last.kind = "replace" /\ ~Page(last.mp).triggered
    /\ \E mp \in mempage_root : Page(mp).triggered /\ Page(mp).count >= Capacity

RECURSIVE NthNext(_, _)
\* the node reached from n by following k next links
NthNext(n, k) == IF k = 0 THEN n ELSE NthNext(lru[n].next, k - 1)

\* C17: in every reachable state the cluster LRU list is a well-formed circular list
\* that holds every allocated cluster exactly once (an insert into a cluster that
\* already holds records neither links it a second time nor damages the links), so
\* the last entry of a non-empty list is a cluster.
C17_LruListWellFormed ==
    LET nodes == 0 .. Len(clusters)
    IN  /\ \A n \in nodes :
             /\ lru[n].next \in nodes /\ lru[n].prev \in nodes
             /\ lru[lru[n].next].prev = n
             /\ lru[lru[n].prev].next = n
        /\ \A k \in 1 .. Len(clusters) : NthNext(HEAD, k) # HEAD
        /\ NthNext(HEAD, Len(clusters) + 1) = HEAD
        /\ Len(clusters) >= 1 => list_last_entry(lru, HEAD) \in 1 .. Len(clusters)

\* C18: for every configured max_counters, 0 included, no unfiltered event reaches
\* mempage_replace while no cluster has been allocated: mp_cluster is never
\* dereferenced while it is null.
C18_ReplaceHasCluster ==
    ~(pc = "crashed" /\ last.kind = "null_cluster")

\* a + k * PAGE_SIZE lies in [0, 2^64) as a mathematical integer
InAddressSpace(a, k) ==
    IF k >= 0 THEN ~(a.hi = LimbMod - 1 /\ a.lo + k >= LimbMod)
    ELSE ~(a.hi = 0 /\ a.lo + k < 0)

\* C19: for every page-aligned triggering address a, every address written to a sysfs
\* node in the call equals a + k * 4096 for an integer k in -5 .. 5, computed as a
\* mathematical integer that lies in [0, 2^64): no written address is the result of a
\* wrap around below 0 or above 2^64 - 1.
C19_NoWrapAround ==
    CrossedOnline
        => \A j \in 1 .. Len(Writes(trace)) :
             \E k \in (0 - num_consecutive_pages) .. num_consecutive_pages :
                /\ InAddressSpace(PageAlign(last.addr), k)
                /\ Writes(trace)[j].addr =
                      (IF k >= 0 THEN AddPages(PageAlign(last.addr), k)
                       ELSE SubPages(PageAlign(last.addr), 0 - k))

\* C20: the slot mempage_replace hands out holds a record that is linked in the tree
\* (rb_erase always removes a linked node), and the number of records in the tree
\* equals corr_err_counters before and after every event; page_setup's rounding of
\* max_counters to a multiple of N is what this rests on.
C20_ReplacedSlotIsIndexed ==
    [][/\ Cardinality(mempage_root) = corr_err_counters
       /\ Cardinality(mempage_root') = corr_err_counters'
       /\ last'.kind # "erase_unlinked"
       /\ last'.kind = "replace" => (last'.mp \in mempage_root /\ last'.mp \in mempage_root')]_vars

\* C20 witness: the table is full with max_counters records, a multiple of N, and a
\* replacement has reused a linked slot
C20_Witness ==
    /\ SetUp /\ pc = "run" /\ last.kind = "replace"
    /\ Cardinality(mempage_root) = max_corr_err_counters
    /\ corr_err_counters = max_corr_err_counters
    /\ mp_repalcement.count >= 1

====
